---------------------------- MODULE Spec2Model ----------------------------
(***************************************************************************)
(* DigiSigini: RSA signing and verification of documents and text.         *)
(*                                                                         *)
(* The module models                                                       *)
(*   - the crypto utilities (generateKeyPair, signData, verifySignature,   *)
(*     generateHash, arrayBufferToBase64, base64ToArrayBuffer),            *)
(*   - the signing page (handleGenerateKeys, handleSign),                  *)
(*   - the verification page (handleVerify),                               *)
(*   - the documents page (handleDelete),                                  *)
(*   - the Supabase tables they write and read (storage, documents,        *)
(*     signatures, audit_logs) with the row-level-security filters.        *)
(* The pages are the ones that sign with RSA keys (generateKeyPair,       *)
(* signData); page "auth" stands for every page that is neither the       *)
(* signing page nor the verification page.                                 *)
(*                                                                         *)
(* A JavaScript string is a sequence of UTF-16 code units, a buffer is a   *)
(* sequence of bytes.  WebCrypto is modelled as ideal cryptography:        *)
(* SHA-256 is collision free on the bounded inputs, an RSA signature is    *)
(* the pair (key, digest of the data) and only the matching public key     *)
(* accepts it.                                                             *)
(***************************************************************************)
EXTENDS Integers, Sequences, FiniteSets, TLC

(***************************************************************************)
(* Bounds of the model.                                                    *)
(***************************************************************************)
\* key pairs generated in a run of Spec, and in a run of SignPageSpec
MaxKeys == 2
MaxRaceKeys == 3
MaxDocs == 2

\* how many of the writes of the signing actions fail
MaxFailures == 1

(***************************************************************************)
(* Values.  A JavaScript string is the sequence of its UTF-16 code units, *)
(* an ArrayBuffer the sequence of its bytes.  A call that may throw gives *)
(* Ok(value) or Thrown(error).                                             *)
(***************************************************************************)
Ok(v) == [ok |-> TRUE, value |-> v]

Thrown(e) == [ok |-> FALSE, error |-> e]

\* String.prototype.trim(): the white space and line terminators of the
\* model's alphabet.
IsWhiteSpace(u) == u \in {9, 10, 11, 12, 13, 32}

RECURSIVE TrimStart(_)
TrimStart(s) ==
  IF s = << >> THEN << >>
  ELSE IF IsWhiteSpace(Head(s)) THEN TrimStart(Tail(s)) ELSE s

RECURSIVE TrimEnd(_)
TrimEnd(s) ==
  IF s = << >> THEN << >>
  ELSE IF IsWhiteSpace(s[Len(s)]) THEN TrimEnd(SubSeq(s, 1, Len(s) - 1)) ELSE s

trim(s) == TrimEnd(TrimStart(s))

(***************************************************************************)
(* TextEncoder.encode: UTF-8 of the string's code points; a surrogate     *)
(* pair is one code point, an unpaired surrogate is encoded as U+FFFD.    *)
(***************************************************************************)
IsHighSurrogate(u) == u >= 55296 /\ u <= 56319

IsLowSurrogate(u) == u >= 56320 /\ u <= 57343

Utf8Bytes(cp) ==
  IF cp < 128 THEN <<cp>>
  ELSE IF cp < 2048 THEN <<192 + (cp \div 64), 128 + (cp % 64)>>
  ELSE IF cp < 65536
    THEN <<224 + (cp \div 4096), 128 + ((cp \div 64) % 64), 128 + (cp % 64)>>
  ELSE <<240 + (cp \div 262144), 128 + ((cp \div 4096) % 64),
         128 + ((cp \div 64) % 64), 128 + (cp % 64)>>

RECURSIVE TextEncoderEncode(_)
TextEncoderEncode(s) ==
  IF s = << >> THEN << >>
  ELSE IF IsHighSurrogate(s[1]) /\ Len(s) >= 2 /\ IsLowSurrogate(s[2])
    THEN Utf8Bytes(65536 + (s[1] - 55296) * 1024 + (s[2] - 56320))
           \o TextEncoderEncode(SubSeq(s, 3, Len(s)))
  ELSE IF IsHighSurrogate(s[1]) \/ IsLowSurrogate(s[1])
    THEN Utf8Bytes(65533) \o TextEncoderEncode(Tail(s))
  ELSE Utf8Bytes(s[1]) \o TextEncoderEncode(Tail(s))

(***************************************************************************)
(* Blob.text(): UTF-8 decode of the file's bytes.  A leading byte order   *)
(* mark is dropped, every ill-formed sequence becomes one U+FFFD and the  *)
(* byte that ended it is read again (the decoder of the Encoding          *)
(* standard).                                                              *)
(***************************************************************************)
CodeUnits(cp) ==
  IF cp < 65536 THEN <<cp>>
  ELSE <<55296 + ((cp - 65536) \div 1024), 56320 + ((cp - 65536) % 1024)>>

\* [needed, lower, upper, cp] for a lead byte; needed = -1 for a byte that
\* cannot start a sequence.
Utf8Lead(b) ==
  IF b >= 194 /\ b <= 223
    THEN [needed |-> 1, lower |-> 128, upper |-> 191, cp |-> b - 192]
  ELSE IF b >= 224 /\ b <= 239
    THEN [needed |-> 2, lower |-> IF b = 224 THEN 160 ELSE 128,
          upper |-> IF b = 237 THEN 159 ELSE 191, cp |-> b - 224]
  ELSE IF b >= 240 /\ b <= 244
    THEN [needed |-> 3, lower |-> IF b = 240 THEN 144 ELSE 128,
          upper |-> IF b = 244 THEN 143 ELSE 191, cp |-> b - 240]
  ELSE [needed |-> -1, lower |-> 128, upper |-> 191, cp |-> 0]

RECURSIVE Utf8Decode(_, _, _, _, _)
Utf8Decode(bytes, needed, lower, upper, cp) ==
  IF bytes = << >> THEN (IF needed > 0 THEN <<65533>> ELSE << >>)
  ELSE LET b == Head(bytes) IN
    IF needed = 0
      THEN IF b < 128 THEN <<b>> \o Utf8Decode(Tail(bytes), 0, 128, 191, 0)
           ELSE LET l == Utf8Lead(b) IN
             IF l.needed = -1
               THEN <<65533>> \o Utf8Decode(Tail(bytes), 0, 128, 191, 0)
               ELSE Utf8Decode(Tail(bytes), l.needed, l.lower, l.upper, l.cp)
    ELSE IF b < lower \/ b > upper
      THEN <<65533>> \o Utf8Decode(bytes, 0, 128, 191, 0)
    ELSE IF needed = 1
      THEN CodeUnits(cp * 64 + (b - 128)) \o Utf8Decode(Tail(bytes), 0, 128, 191, 0)
    ELSE Utf8Decode(Tail(bytes), needed - 1, 128, 191, cp * 64 + (b - 128))

FileText(bytes) ==
  IF Len(bytes) >= 3 /\ SubSeq(bytes, 1, 3) = <<239, 187, 191>>
    THEN Utf8Decode(SubSeq(bytes, 4, Len(bytes)), 0, 128, 191, 0)
    ELSE Utf8Decode(bytes, 0, 128, 191, 0)

(***************************************************************************)
(* btoa and atob.                                                          *)
(***************************************************************************)
Base64Char(i) ==
  IF i < 26 THEN 65 + i
  ELSE IF i < 52 THEN 71 + i
  ELSE IF i < 62 THEN i - 4
  ELSE IF i = 62 THEN 43 ELSE 47

\* -1 for a code unit outside the base64 alphabet
Base64Index(u) ==
  IF u >= 65 /\ u <= 90 THEN u - 65
  ELSE IF u >= 97 /\ u <= 122 THEN u - 71
  ELSE IF u >= 48 /\ u <= 57 THEN u + 4
  ELSE IF u = 43 THEN 62
  ELSE IF u = 47 THEN 63 ELSE -1

RECURSIVE btoa(_)
btoa(b) ==
  IF b = << >> THEN << >>
  ELSE IF Len(b) = 1
    THEN <<Base64Char(b[1] \div 4), Base64Char((b[1] % 4) * 16), 61, 61>>
  ELSE IF Len(b) = 2
    THEN <<Base64Char(b[1] \div 4), Base64Char((b[1] % 4) * 16 + (b[2] \div 16)),
           Base64Char((b[2] % 16) * 4), 61>>
  ELSE <<Base64Char(b[1] \div 4), Base64Char((b[1] % 4) * 16 + (b[2] \div 16)),
         Base64Char((b[2] % 16) * 4 + (b[3] \div 64)), Base64Char(b[3] % 64)>>
         \o btoa(SubSeq(b, 4, Len(b)))

RECURSIVE RemoveAsciiWhitespace(_)
RemoveAsciiWhitespace(s) ==
  IF s = << >> THEN << >>
  ELSE IF Head(s) \in {9, 10, 12, 13, 32} THEN RemoveAsciiWhitespace(Tail(s))
  ELSE <<Head(s)>> \o RemoveAsciiWhitespace(Tail(s))

RemovePadding(s) ==
  IF Len(s) > 0 /\ Len(s) % 4 = 0 /\ s[Len(s)] = 61
    THEN IF s[Len(s) - 1] = 61 THEN SubSeq(s, 1, Len(s) - 2)
         ELSE SubSeq(s, 1, Len(s) - 1)
    ELSE s

RECURSIVE Base64Decode(_)
Base64Decode(s) ==
  IF Len(s) < 2 THEN << >>
  ELSE LET i1 == Base64Index(s[1])
           i2 == Base64Index(s[2]) IN
    IF Len(s) = 2 THEN <<i1 * 4 + (i2 \div 16)>>
    ELSE LET i3 == Base64Index(s[3]) IN
      IF Len(s) = 3 THEN <<i1 * 4 + (i2 \div 16), (i2 % 16) * 16 + (i3 \div 4)>>
      ELSE <<i1 * 4 + (i2 \div 16), (i2 % 16) * 16 + (i3 \div 4),
             (i3 % 4) * 64 + Base64Index(s[4])>>
             \o Base64Decode(SubSeq(s, 5, Len(s)))

\* atob: the forgiving-base64 decode; throws InvalidCharacterError
atob(s) ==
  LET d == RemovePadding(RemoveAsciiWhitespace(s)) IN
    IF Len(d) % 4 = 1 \/ \E i \in 1..Len(d) : Base64Index(d[i]) = -1
      THEN Thrown("InvalidCharacterError")
      ELSE Ok(Base64Decode(d))

arrayBufferToBase64(buffer) == btoa(buffer)

base64ToArrayBuffer(base64) == atob(base64)

(***************************************************************************)
(* crypto.subtle, as ideal cryptography.  Key pair number k is exported   *)
(* as SpkiBytes(k) and Pkcs8Bytes(k); importKey accepts exactly the       *)
(* exported encodings.  The digest of a buffer determines the buffer, and *)
(* the RSASSA-PKCS1-v1_5 signature (deterministic) of data under key k is *)
(* determined by k and the digest of data.                                 *)
(***************************************************************************)
KeyIds == 1..MaxRaceKeys

SpkiBytes(k) == <<48, 1, k>>

Pkcs8Bytes(k) == <<48, 2, k>>

importKey(format, keyData) ==
  LET enc(k) == IF format = "spki" THEN SpkiBytes(k) ELSE Pkcs8Bytes(k)
      ks == {k \in KeyIds : enc(k) = keyData} IN
    IF ks = {} THEN Thrown("DataError") ELSE Ok(CHOOSE k \in ks : TRUE)

digest(data) == <<Len(data)>> \o data

sign(key, data) == <<key>> \o digest(data)

\* a verification that does not look at the key
verifyAnyKey(key, signature, data) ==
  Len(signature) > 0 /\ SubSeq(signature, 2, Len(signature)) = digest(data)

verify(key, signature, data) == signature = sign(key, data)

(***************************************************************************)
(* utils/crypto.ts                                                         *)
(***************************************************************************)
\* a generator that gives every caller the same pair
generateKeyPairOnce(k) ==
  [publicKey |-> arrayBufferToBase64(SpkiBytes(1)),
   privateKey |-> arrayBufferToBase64(Pkcs8Bytes(1))]

\* generateKeyPair, for the pair the platform generates
generateKeyPair(k) ==
  [publicKey |-> arrayBufferToBase64(SpkiBytes(k)),
   privateKey |-> arrayBufferToBase64(Pkcs8Bytes(k))]

\* signing the UTF-16 code units instead of the UTF-8 bytes
signDataOfCodeUnits(data, privateKeyBase64) ==
  LET privateKeyBuffer == base64ToArrayBuffer(privateKeyBase64) IN
    IF ~privateKeyBuffer.ok THEN privateKeyBuffer
    ELSE LET privateKey == importKey("pkcs8", privateKeyBuffer.value) IN
      IF ~privateKey.ok THEN privateKey
      ELSE Ok(arrayBufferToBase64(sign(privateKey.value, data)))

signData(data, privateKeyBase64) ==
  LET privateKeyBuffer == base64ToArrayBuffer(privateKeyBase64) IN
    IF ~privateKeyBuffer.ok THEN privateKeyBuffer
    ELSE LET privateKey == importKey("pkcs8", privateKeyBuffer.value) IN
      IF ~privateKey.ok THEN privateKey
      ELSE Ok(arrayBufferToBase64(sign(privateKey.value, TextEncoderEncode(data))))

\* the body of verifySignature's try block
verifySignatureTry(data, signatureBase64, publicKeyBase64) ==
  LET publicKeyBuffer == base64ToArrayBuffer(publicKeyBase64) IN
    IF ~publicKeyBuffer.ok THEN publicKeyBuffer
    ELSE LET publicKey == importKey("spki", publicKeyBuffer.value) IN
      IF ~publicKey.ok THEN publicKey
      ELSE LET signatureBuffer == base64ToArrayBuffer(signatureBase64) IN
        IF ~signatureBuffer.ok THEN signatureBuffer
        ELSE Ok(verify(publicKey.value, signatureBuffer.value,
                       TextEncoderEncode(data)))

\* verifySignature without its catch block
verifySignatureNoCatch(data, signatureBase64, publicKeyBase64) ==
  verifySignatureTry(data, signatureBase64, publicKeyBase64)

\* verifySignature: the try block, and false from the catch block
verifySignature(data, signatureBase64, publicKeyBase64) ==
  LET r == verifySignatureTry(data, signatureBase64, publicKeyBase64) IN
    IF r.ok THEN Ok(r.value) ELSE Ok(FALSE)

HexDigit(n) == IF n < 10 THEN 48 + n ELSE 87 + n

toString16(b) ==
  IF b < 16 THEN <<HexDigit(b)>> ELSE <<HexDigit(b \div 16), HexDigit(b % 16)>>

padStart2(s) == IF Len(s) < 2 THEN <<48>> \o s ELSE s

RECURSIVE HexJoin(_)
HexJoin(hashArray) ==
  IF hashArray = << >> THEN << >>
  ELSE padStart2(toString16(Head(hashArray))) \o HexJoin(Tail(hashArray))

generateHash(data) == HexJoin(digest(TextEncoderEncode(data)))

\* a generateHash that hashes the UTF-16 code units of the string
generateHashOfCodeUnits(data) == HexJoin(digest(data))

\* the generateHash that the first revision of the signing page defines
\* for itself (pages/SignDocument.tsx)
SignDocumentGenerateHash(data) == HexJoin(digest(TextEncoderEncode(data)))

(***************************************************************************)
(* The inputs of the model.                                                *)
(***************************************************************************)
Users == {"u1", "u2"}

\* no session, no user
NoUser == "none"

\* the users who open the signing page; the others only verify
Signers == {"u1"}

\* null for a value that is a record
Null == [null |-> TRUE]

\* the text "a" and the text "ax"
TextA == <<97>>

TextAx == <<97, 120>>

\* a file whose bytes are the UTF-8 of "a"
FileA == [name |-> "a.txt", ext |-> "txt", bytes |-> <<97>>]

SignTexts == {<< >>, TextA}

SignFiles == {Null, FileA}

VerifyTexts == {TextA, TextAx}

VerifyFiles == {FileA}

(***************************************************************************)
(* State.                                                                  *)
(***************************************************************************)
VARIABLES
  \* Supabase: the storage bucket 'documents' and the tables
  storage, documents, signatures, audit_logs,
  \* the browser: the Supabase session, localStorage (keys_<user id>), the
  \* page shown, and whether its getSession() callback has run
  session, localStorage, page, ready,
  \* SignDocument: state of the component, the handleSign call in flight,
  \* the handleGenerateKeys calls in flight
  user, privateKey, publicKey, generatedSignature, loading, generatingKeys,
  signTask, genTasks,
  \* VerifySignature: state of the component
  verifyMode, file, textContent, manualSignature, manualPublicKey,
  verificationResult,
  \* whether the signature field and the public key field hold what a
  \* lookup of handleVerify has put there and the user has not edited since
  populated,
  \* Date.now() and the number of key pairs generated so far
  now, nextKey,
  \* what the handler call that just returned did and reported
  lastEvent,
  \* the signing actions that reported success
  reported,
  \* the call of a crypto utility under test
  probe

backendVars == <<storage, documents, signatures, audit_logs>>

browserVars == <<session, localStorage, page, ready>>

signVars == <<user, privateKey, publicKey, generatedSignature, loading,
              generatingKeys, signTask, genTasks>>

verifyVars == <<verifyMode, file, textContent, manualSignature,
                manualPublicKey, verificationResult, populated>>

vars == <<backendVars, browserVars, signVars, verifyVars, now, nextKey,
          lastEvent, reported, probe>>

NoKeys == [publicKey |-> << >>, privateKey |-> << >>]

NoEvent == [op |-> "none"]

Idle == [pc |-> "idle"]

NoProbe == [stage |-> "none"]

\* useState(...) of SignDocument
SignPageInit ==
  /\ user = NoUser
  /\ privateKey = << >>
  /\ publicKey = << >>
  /\ generatedSignature = << >>
  /\ loading = FALSE
  /\ generatingKeys = FALSE
  /\ signTask = Idle
  /\ genTasks = {}

\* useState(...) of VerifySignature
VerifyPageInit ==
  /\ verifyMode = "file"
  /\ file = Null
  /\ textContent = << >>
  /\ manualSignature = << >>
  /\ manualPublicKey = << >>
  /\ verificationResult = Null
  /\ populated = FALSE

\* the component is mounted anew
SignPageMount ==
  /\ user' = NoUser
  /\ privateKey' = << >>
  /\ publicKey' = << >>
  /\ generatedSignature' = << >>
  /\ loading' = FALSE
  /\ generatingKeys' = FALSE
  /\ signTask' = Idle
  /\ genTasks' = {}

VerifyPageMount ==
  /\ verifyMode' = "file"
  /\ file' = Null
  /\ textContent' = << >>
  /\ manualSignature' = << >>
  /\ manualPublicKey' = << >>
  /\ verificationResult' = Null
  /\ populated' = FALSE

AppInit ==
  /\ storage = {}
  /\ documents = {}
  /\ signatures = {}
  /\ audit_logs = {}
  /\ session = NoUser
  /\ localStorage = [u \in Users |-> NoKeys]
  /\ page = "auth"
  /\ ready = TRUE
  /\ SignPageInit
  /\ VerifyPageInit
  /\ now = 0
  /\ nextKey = 1
  /\ lastEvent = NoEvent
  /\ reported = {}

Init == AppInit /\ probe = NoProbe

(***************************************************************************)
(* Sessions and pages.                                                     *)
(***************************************************************************)
\* nothing of the page left is still running
PageIdle == signTask = Idle /\ genTasks = {}

\* the Auth page: sign in, sign out
SignIn(u) ==
  /\ page = "auth"
  /\ session = NoUser
  /\ session' = u
  /\ lastEvent' = NoEvent
  /\ UNCHANGED <<backendVars, localStorage, page, ready, signVars, verifyVars,
                 now, nextKey, reported, probe>>

SignOut ==
  /\ page = "auth"
  /\ session # NoUser
  /\ session' = NoUser
  /\ lastEvent' = NoEvent
  /\ UNCHANGED <<backendVars, localStorage, page, ready, signVars, verifyVars,
                 now, nextKey, reported, probe>>

\* a route is opened: the page's component is mounted with its initial
\* state, the component of the page left is gone
Navigate(p) ==
  /\ p \in {"auth", "sign", "verify"}
  /\ p # page
  /\ p = "sign" => session \in Signers \cup {NoUser}
  /\ PageIdle
  /\ page' = p
  /\ ready' = (p = "auth")
  /\ SignPageMount
  /\ VerifyPageMount
  /\ lastEvent' = NoEvent
  /\ UNCHANGED <<backendVars, session, localStorage, now, nextKey, reported,
                 probe>>

\* loadStoredKeys
loadStoredKeys(userId) ==
  IF localStorage[userId] # NoKeys
    THEN /\ privateKey' = localStorage[userId].privateKey
         /\ publicKey' = localStorage[userId].publicKey
    ELSE UNCHANGED <<privateKey, publicKey>>

\* SignDocument's useEffect: the getSession() callback
SignDocumentSession ==
  /\ page = "sign"
  /\ ~ready
  /\ lastEvent' = NoEvent
  /\ IF session = NoUser
       THEN /\ page' = "auth"
            /\ ready' = TRUE
            /\ UNCHANGED <<signVars>>
       ELSE /\ ready' = TRUE
            /\ user' = session
            /\ loadStoredKeys(session)
            /\ UNCHANGED <<page, generatedSignature, loading, generatingKeys,
                           signTask, genTasks>>
  /\ UNCHANGED <<backendVars, session, localStorage, verifyVars, now, nextKey,
                 reported, probe>>

\* VerifySignature's useEffect: the getSession() callback
VerifySignatureSession ==
  /\ page = "verify"
  /\ ~ready
  /\ lastEvent' = NoEvent
  /\ IF session = NoUser
       THEN /\ page' = "auth"
            /\ ready' = TRUE
            /\ VerifyPageMount
       ELSE /\ ready' = TRUE
            /\ manualPublicKey' =
                 IF localStorage[session] # NoKeys
                   THEN localStorage[session].publicKey
                   ELSE manualPublicKey
            /\ UNCHANGED <<page, verifyMode, file, textContent,
                           manualSignature, verificationResult, populated>>
  /\ UNCHANGED <<backendVars, session, localStorage, signVars, now, nextKey,
                 reported, probe>>

(***************************************************************************)
(* SignDocument: handleGenerateKeys.                                       *)
(***************************************************************************)
\* the click: up to "await generateKeyPair()"; at most maxKeys pairs are
\* asked for in a run
handleGenerateKeysWithin(maxKeys) ==
  /\ page = "sign"
  /\ user # NoUser
  \* the first button is disabled while keys are generated, the
  \* "Regenerate Keys" button is not
  /\ (privateKey = << >> \/ publicKey = << >>) => ~generatingKeys
  /\ nextKey <= maxKeys
  /\ generatingKeys' = TRUE
  /\ genTasks' = genTasks \cup {[user |-> user, k |-> nextKey]}
  /\ nextKey' = nextKey + 1
  /\ lastEvent' = NoEvent
  /\ UNCHANGED <<backendVars, browserVars, user, privateKey, publicKey,
                 generatedSignature, loading, signTask, verifyVars, now,
                 reported, probe>>

handleGenerateKeys == handleGenerateKeysWithin(MaxKeys)

\* the warning shown, and the confirmation asked for, between a click on
\* "Regenerate Keys" and the overwriting of the stored pair: the button's
\* onClick is handleGenerateKeys itself, and handleGenerateKeys opens no
\* dialog and reads no confirmation
RegenerateWarning == FALSE

\* what handleGenerateKeys reports when it returns: the toast (outcome),
\* the pair it asked for (k) and the entry that localStorage held for the
\* user when generateKeyPair() settled (old)
GenerateEvent(t, outcome) ==
  [op |-> "handleGenerateKeys", outcome |-> outcome, user |-> t.user,
   k |-> t.k, old |-> localStorage[t.user]]

\* a handleGenerateKeys that stores the new pair under every user's name
handleGenerateKeysDoneAllUsers(t, ok) ==
  /\ t \in genTasks
  /\ genTasks' = genTasks \ {t}
  /\ generatingKeys' = FALSE
  /\ IF ok
       THEN LET keys == generateKeyPair(t.k) IN
            /\ privateKey' = keys.privateKey
            /\ publicKey' = keys.publicKey
            /\ localStorage' = [u \in Users |-> keys]
            /\ lastEvent' = GenerateEvent(t, "success")
       ELSE /\ UNCHANGED <<privateKey, publicKey, localStorage>>
            /\ lastEvent' = GenerateEvent(t, "error")
  /\ UNCHANGED <<backendVars, session, page, ready, user, generatedSignature,
                 loading, signTask, verifyVars, now, nextKey, reported, probe>>

\* generateKeyPair() resolves (ok) or rejects; then the finally block
handleGenerateKeysDone(t, ok) ==
  /\ t \in genTasks
  /\ genTasks' = genTasks \ {t}
  /\ generatingKeys' = FALSE
  /\ IF ok
       THEN LET keys == generateKeyPair(t.k) IN
            /\ privateKey' = keys.privateKey
            /\ publicKey' = keys.publicKey
            /\ localStorage' = [localStorage EXCEPT ![t.user] = keys]
            /\ lastEvent' = GenerateEvent(t, "success")
       ELSE /\ UNCHANGED <<privateKey, publicKey, localStorage>>
            /\ lastEvent' = GenerateEvent(t, "error")
  /\ UNCHANGED <<backendVars, session, page, ready, user, generatedSignature,
                 loading, signTask, verifyVars, now, nextKey, reported, probe>>

(***************************************************************************)
(* SignDocument: handleSign.  One handleSign call is a signTask: what its *)
(* closure and local variables hold, where it stands (pc) and, in wrote,  *)
(* the writes it has made so far.                                          *)
(***************************************************************************)
\* user.id as a string
UserId(u) == IF u = "u1" THEN <<117, 49>> ELSE <<117, 50>>

NoWrites == [blob |-> 0, document |-> 0, signature |-> 0, audit |-> 0]

\* `${user.id}/${Date.now()}.${fileExt}`
UploadPath(u, t, ext) == [prefix |-> "", owner |-> u, t |-> t, ext |-> ext]

\* a text path that does not name the user
TextPathAnonymous(u, t) == [prefix |-> "text", owner |-> NoUser, t |-> t, ext |-> ""]

\* `text/${user.id}/${Date.now()}`
TextPath(u, t) == [prefix |-> "text", owner |-> u, t |-> t, ext |-> ""]

\* what handleSign reports when it returns: the toast (outcome), the
\* writes it made and the step whose call failed ("none" if none did)
SignEvent(task, outcome, failed) ==
  [op |-> "handleSign", outcome |-> outcome,
   user |-> task.user, signMode |-> task.signMode, data |-> task.data,
   t |-> task.t, wrote |-> task.wrote, failed |-> failed]

\* the toast of a guard that failed, or the silent return
SignRejected(reason) == [op |-> "handleSign", outcome |-> "rejected",
                         reason |-> reason]

\* the click on "Sign Document" (the button is disabled while loading), up
\* to the first await that leaves the browser
handleSign(mode, f, text) ==
  /\ page = "sign"
  /\ ~loading
  /\ mode \in {"file", "text"}
  /\ IF user = NoUser \/ privateKey = << >> \/ publicKey = << >>
       THEN /\ lastEvent' = SignRejected("Keys required")
            /\ UNCHANGED <<loading, signTask, now>>
     ELSE IF mode = "file" /\ f = Null
       THEN /\ lastEvent' = SignRejected("File required")
            /\ UNCHANGED <<loading, signTask, now>>
     ELSE IF mode = "text" /\ trim(text) = << >>
       THEN /\ lastEvent' = SignRejected("Text required")
            /\ UNCHANGED <<loading, signTask, now>>
     ELSE /\ now < MaxDocs
          /\ now' = now + 1
          /\ loading' = TRUE
          /\ lastEvent' = NoEvent
          /\ signTask' =
               [pc |-> IF mode = "file" THEN "upload" ELSE "hash",
                user |-> user, privateKey |-> privateKey,
                publicKey |-> publicKey, signMode |-> mode,
                file |-> IF mode = "file" THEN f ELSE Null,
                data |-> IF mode = "file" THEN FileText(f.bytes) ELSE text,
                fileName |-> IF mode = "file" THEN f.name
                             ELSE "text_document_${Date.now()}.txt",
                filePath |-> IF mode = "file"
                               THEN UploadPath(user, now + 1, f.ext)
                               ELSE TextPath(user, now + 1),
                t |-> now + 1, fileHash |-> << >>, signature |-> << >>,
                signatureHash |-> << >>, wrote |-> NoWrites]
  /\ UNCHANGED <<backendVars, browserVars, user, privateKey, publicKey,
                 generatedSignature, generatingKeys, genTasks, verifyVars,
                 nextKey, reported, probe>>

\* the documents rows of uploaded files whose blob is gone
BloblessDocuments ==
  {d \in documents :
     d.file_path.prefix = "" /\ ~\E b \in storage : b.path = d.file_path}

\* the writes that have failed so far: a signing action that was started
\* and neither is running nor reported success ended in the catch block,
\* one that reported success without an audit row lost its audit insert,
\* and a documents row of an uploaded file without its blob lost its
\* delete
Failures ==
  (now - Cardinality(reported) - (IF signTask = Idle THEN 0 ELSE 1))
    + (Cardinality(reported) - Cardinality(audit_logs))
    + Cardinality(BloblessDocuments)

\* a write may fail
MayFail(ok) == ok \/ Failures < MaxFailures

\* the catch block and the finally block
SignCatch ==
  /\ lastEvent' = SignEvent(signTask, "error", signTask.pc)
  /\ signTask' = Idle
  /\ loading' = FALSE

SignRunning(pc) == page = "sign" /\ signTask.pc = pc

\* supabase.storage.from('documents').upload(filePath, file); the policy
\* "Users can upload their own documents" wants the first folder of the
\* path to be auth.uid()
handleSignUpload(ok) ==
  /\ SignRunning("upload")
  /\ MayFail(ok)
  /\ IF ok /\ signTask.filePath.owner = session
       THEN /\ storage' = storage \cup
                 {[path |-> signTask.filePath, body |-> signTask.file.bytes]}
            /\ signTask' = [signTask EXCEPT !.pc = "hash", !.wrote.blob = @ + 1]
            /\ lastEvent' = NoEvent
            /\ UNCHANGED loading
       ELSE /\ SignCatch
            /\ UNCHANGED storage
  /\ UNCHANGED <<documents, signatures, audit_logs, browserVars, user,
                 privateKey, publicKey, generatedSignature, generatingKeys,
                 genTasks, verifyVars, now, nextKey, reported, probe>>

\* a handleSign that goes from signData to the signatures insert, leaving
\* out the documents insert
handleSignHashThenSignature ==
  /\ SignRunning("hash")
  /\ LET fileHash == generateHash(signTask.data)
         signature == signData(signTask.data, signTask.privateKey) IN
       IF signature.ok
         THEN /\ generatedSignature' = signature.value
              /\ signTask' = [signTask EXCEPT !.pc = "insertSignature",
                                              !.fileHash = fileHash,
                                              !.signature = signature.value,
                                              !.signatureHash = fileHash]
              /\ lastEvent' = NoEvent
              /\ UNCHANGED loading
         ELSE /\ SignCatch
              /\ UNCHANGED generatedSignature
  /\ UNCHANGED <<backendVars, browserVars, user, privateKey, publicKey,
                 generatingKeys, genTasks, verifyVars, now, nextKey, reported,
                 probe>>

\* a handleSign that signs the digest instead of the content
handleSignHashOfDigest ==
  /\ SignRunning("hash")
  /\ LET fileHash == generateHash(signTask.data)
         signature == signData(fileHash, signTask.privateKey) IN
       IF signature.ok
         THEN /\ generatedSignature' = signature.value
              /\ signTask' = [signTask EXCEPT !.pc = "insertDocument",
                                              !.fileHash = fileHash,
                                              !.signature = signature.value,
                                              !.signatureHash = fileHash]
              /\ lastEvent' = NoEvent
              /\ UNCHANGED loading
         ELSE /\ SignCatch
              /\ UNCHANGED generatedSignature
  /\ UNCHANGED <<backendVars, browserVars, user, privateKey, publicKey,
                 generatingKeys, genTasks, verifyVars, now, nextKey, reported,
                 probe>>

\* generateHash, signData, setGeneratedSignature
handleSignHash ==
  /\ SignRunning("hash")
  /\ LET fileHash == generateHash(signTask.data)
         signature == signData(signTask.data, signTask.privateKey) IN
       IF signature.ok
         THEN /\ generatedSignature' = signature.value
              /\ signTask' = [signTask EXCEPT !.pc = "insertDocument",
                                              !.fileHash = fileHash,
                                              !.signature = signature.value,
                                              !.signatureHash = fileHash]
              /\ lastEvent' = NoEvent
              /\ UNCHANGED loading
         ELSE /\ SignCatch
              /\ UNCHANGED generatedSignature
  /\ UNCHANGED <<backendVars, browserVars, user, privateKey, publicKey,
                 generatingKeys, genTasks, verifyVars, now, nextKey, reported,
                 probe>>

\* supabase.from('documents').insert(...).select().single(); the policy
\* "Users can create their own documents" wants auth.uid() = user_id.  The
\* row's id is new: the number of the signing action stands for it.
handleSignInsertDocument(ok) ==
  /\ SignRunning("insertDocument")
  /\ MayFail(ok)
  /\ IF ok /\ signTask.user = session
       THEN /\ documents' = documents \cup
                 {[id |-> signTask.t, user_id |-> signTask.user,
                   file_name |-> signTask.fileName,
                   file_path |-> signTask.filePath,
                   file_hash |-> signTask.fileHash, status |-> "signed"]}
            /\ signTask' = [signTask EXCEPT !.pc = "insertSignature",
                                            !.wrote.document = @ + 1]
            /\ lastEvent' = NoEvent
            /\ UNCHANGED loading
       ELSE /\ SignCatch
            /\ UNCHANGED documents
  /\ UNCHANGED <<storage, signatures, audit_logs, browserVars, user,
                 privateKey, publicKey, generatedSignature, generatingKeys,
                 genTasks, verifyVars, now, nextKey, reported, probe>>

\* a signatures insert that undoes the documents insert when it fails
handleSignInsertSignatureRollback(ok) ==
  /\ SignRunning("insertSignature")
  /\ MayFail(ok)
  /\ IF ok /\ signTask.user = session
       THEN /\ signatures' = signatures \cup
                 {[document_id |-> signTask.t, user_id |-> signTask.user,
                   signature_data |-> signTask.signature,
                   signature_hash |-> signTask.signatureHash]}
            /\ signTask' = [signTask EXCEPT !.pc = "insertAudit",
                                            !.wrote.signature = @ + 1]
            /\ lastEvent' = NoEvent
            /\ UNCHANGED <<loading, documents>>
       ELSE /\ SignCatch
            /\ documents' = {d \in documents : d.id # signTask.t}
            /\ UNCHANGED signatures
  /\ UNCHANGED <<storage, audit_logs, browserVars, user,
                 privateKey, publicKey, generatedSignature, generatingKeys,
                 genTasks, verifyVars, now, nextKey, reported, probe>>

\* supabase.from('signatures').insert(...); the policy "Users can create
\* signatures" wants auth.uid() = user_id
handleSignInsertSignature(ok) ==
  /\ SignRunning("insertSignature")
  /\ MayFail(ok)
  /\ IF ok /\ signTask.user = session
       THEN /\ signatures' = signatures \cup
                 {[document_id |-> signTask.t, user_id |-> signTask.user,
                   signature_data |-> signTask.signature,
                   signature_hash |-> signTask.signatureHash]}
            /\ signTask' = [signTask EXCEPT !.pc = "insertAudit",
                                            !.wrote.signature = @ + 1]
            /\ lastEvent' = NoEvent
            /\ UNCHANGED loading
       ELSE /\ SignCatch
            /\ UNCHANGED signatures
  /\ UNCHANGED <<storage, documents, audit_logs, browserVars, user,
                 privateKey, publicKey, generatedSignature, generatingKeys,
                 genTasks, verifyVars, now, nextKey, reported, probe>>

\* a metadata that records the private key
AuditMetadataWithPrivateKey(task) ==
  [file_name |-> task.fileName, sign_mode |-> task.signMode,
   public_key |-> task.privateKey]

\* a metadata that reads the public key from the page state at the time of
\* the insert instead of the handler's closure
AuditMetadataOfPageState(task) ==
  [file_name |-> task.fileName, sign_mode |-> task.signMode,
   public_key |-> publicKey]

\* metadata of the audit row
AuditMetadata(task) ==
  [file_name |-> task.fileName, sign_mode |-> task.signMode,
   public_key |-> task.publicKey]

\* await supabase.from('audit_logs').insert(...): the result is not read,
\* an error is not thrown; then the success toast and the finally block.
handleSignInsertAudit(ok) ==
  /\ SignRunning("insertAudit")
  /\ MayFail(ok)
  /\ LET done == IF ok /\ signTask.user = session
                   THEN [signTask EXCEPT !.wrote.audit = @ + 1]
                   ELSE signTask IN
       /\ audit_logs' =
            IF ok /\ signTask.user = session
              THEN audit_logs \cup
                     {[user_id |-> signTask.user, action |-> "document_signed",
                       resource_type |-> "document",
                       resource_id |-> signTask.t,
                       metadata |-> AuditMetadata(signTask)]}
              ELSE audit_logs
       /\ lastEvent' = SignEvent(done, "success",
                                  IF ok /\ signTask.user = session
                                    THEN "none" ELSE "insertAudit")
       /\ reported' = reported \cup
                        {[user |-> signTask.user, data |-> signTask.data,
                          t |-> signTask.t, signMode |-> signTask.signMode,
                          signature |-> signTask.signature,
                          publicKey |-> signTask.publicKey]}
  /\ signTask' = Idle
  /\ loading' = FALSE
  /\ UNCHANGED <<storage, documents, signatures, browserVars, user,
                 privateKey, publicKey, generatedSignature, generatingKeys,
                 genTasks, verifyVars, now, nextKey, probe>>

(***************************************************************************)
(* Documents: handleDelete.  The page lists the documents rows of the      *)
(* signed-in user (loadDocuments); it is one of the pages that "auth"      *)
(* stands for.                                                             *)
(***************************************************************************)
\* what handleDelete reports when it returns
DeleteEvent(doc, outcome) ==
  [op |-> "handleDelete", outcome |-> outcome, doc |-> doc.id]

\* storage.from("documents").remove([file_path]) under the policy "Users
\* can delete their own documents" on storage.objects: the first folder
\* of the name is auth.uid(); a name that matches no object removes
\* nothing and is no error
StorageRemove(path) ==
  {b \in storage : ~(b.path = path /\ path.prefix = "" /\ path.owner = session)}

\* from("documents").delete() without .eq("id", doc.id): under the policy
\* "Users can delete their own documents" every row of the user goes
DocumentsDeleteAll(id) ==
  {d \in documents : d.user_id # session}

\* from("documents").delete().eq("id", doc.id) under the policy "Users can
\* delete their own documents"
DocumentsDelete(id) ==
  {d \in documents : ~(d.id = id /\ d.user_id = session)}

\* signatures.document_id REFERENCES documents(id) ON DELETE CASCADE
SignaturesCascade(docs) ==
  {g \in signatures : \E d \in docs : d.id = g.document_id}

\* confirmed: the answer to confirm(); storageOk, dbOk: the call does not
\* fail
handleDelete(doc, confirmed, storageOk, dbOk) ==
  /\ page = "auth"
  /\ session # NoUser
  /\ doc \in documents
  /\ doc.user_id = session
  /\ MayFail(storageOk /\ dbOk)
  /\ IF ~confirmed
       THEN /\ lastEvent' = DeleteEvent(doc, "cancelled")
            /\ UNCHANGED <<storage, documents, signatures>>
     ELSE IF ~storageOk
       THEN /\ lastEvent' = DeleteEvent(doc, "error")
            /\ UNCHANGED <<storage, documents, signatures>>
     ELSE IF ~dbOk
       THEN /\ storage' = StorageRemove(doc.file_path)
            /\ lastEvent' = DeleteEvent(doc, "error")
            /\ UNCHANGED <<documents, signatures>>
     ELSE /\ storage' = StorageRemove(doc.file_path)
          /\ documents' = DocumentsDelete(doc.id)
          /\ signatures' = SignaturesCascade(DocumentsDelete(doc.id))
          /\ lastEvent' = DeleteEvent(doc, "success")
  /\ UNCHANGED <<audit_logs, browserVars, signVars, verifyVars, now, nextKey,
                 reported, probe>>

(***************************************************************************)
(* VerifySignature: the change handlers of the inputs.                     *)
(***************************************************************************)
handleFileChange(selectedFile) ==
  /\ page = "verify" /\ ready
  /\ IF selectedFile # Null
       THEN file' = selectedFile /\ verificationResult' = Null
       ELSE UNCHANGED <<file, verificationResult>>
  /\ lastEvent' = NoEvent
  /\ UNCHANGED <<backendVars, browserVars, signVars, verifyMode, textContent,
                 manualSignature, manualPublicKey, populated, now, nextKey,
                 reported, probe>>

handleTextChange(value) ==
  /\ page = "verify" /\ ready
  /\ textContent' = value
  /\ verificationResult' = Null
  /\ lastEvent' = NoEvent
  /\ UNCHANGED <<backendVars, browserVars, signVars, verifyMode, file,
                 manualSignature, manualPublicKey, populated, now, nextKey,
                 reported, probe>>

\* <Tabs onValueChange={(v) => setVerifyMode(v)}>
setVerifyMode(v) ==
  /\ page = "verify" /\ ready
  /\ v \in {"file", "text"}
  /\ verifyMode' = v
  /\ lastEvent' = NoEvent
  /\ UNCHANGED <<backendVars, browserVars, signVars, file, textContent,
                 manualSignature, manualPublicKey, verificationResult,
                 populated, now, nextKey, reported, probe>>

\* the inputs "manual-signature" and "manual-public-key"
setManualSignature(value) ==
  /\ page = "verify" /\ ready
  /\ manualSignature' = value
  /\ populated' = FALSE
  /\ lastEvent' = NoEvent
  /\ UNCHANGED <<backendVars, browserVars, signVars, verifyMode, file,
                 textContent, manualPublicKey, verificationResult, now,
                 nextKey, reported, probe>>

setManualPublicKey(value) ==
  /\ page = "verify" /\ ready
  /\ manualPublicKey' = value
  /\ populated' = FALSE
  /\ lastEvent' = NoEvent
  /\ UNCHANGED <<backendVars, browserVars, signVars, verifyMode, file,
                 textContent, manualSignature, verificationResult, now,
                 nextKey, reported, probe>>

(***************************************************************************)
(* VerifySignature: handleVerify.                                          *)
(***************************************************************************)
MsgNotSigned ==
  "This content has not been signed or no signature/public key provided"

MsgNoSignature == "No signature found for this content"

MsgKeyNotFound == "Public key not found in database. Cannot verify signature."

MsgVerified ==
  "Signature verified successfully! Content is authentic and unmodified."

MsgInvalid ==
  "Signature verification failed! Content may have been tampered with."

MsgError == "Error occurred during verification"

Result(verified, message) == [verified |-> verified, message |-> message]

\* a documents query that forgets .eq('file_hash', fileHash)
SelectDocumentsOfUser(fileHash) ==
  {d \in documents : d.user_id = session}

\* a documents query that no row-level-security policy filters
SelectDocumentsOfAnyone(fileHash) ==
  {d \in documents : d.file_hash = fileHash}

\* from('documents').select(...).eq('file_hash', fileHash) under the policy
\* "Users can view their own documents"
SelectDocuments(fileHash) ==
  {d \in documents : d.file_hash = fileHash /\ d.user_id = session}

\* the embedded signatures of a document, under the policy "Users can
\* view signatures on their documents"
SelectSignatures(doc) ==
  {g \in signatures :
     /\ g.document_id = doc.id
     /\ (doc.user_id = session \/ g.user_id = session)}

\* an audit_logs query that forgets .eq('resource_id', doc.id)
SelectAuditLogsOfAnyDocument(doc) ==
  {a \in audit_logs : a.action = "document_signed" /\ a.user_id = session}

\* from('audit_logs').select('metadata').eq('resource_id', doc.id)
\*   .eq('action', 'document_signed') under the policies "Users can view
\* their own audit logs" and "Admins can view all audit logs" (no page
\* makes a user an admin)
SelectAuditLogs(doc) ==
  {a \in audit_logs :
     /\ a.resource_id = doc.id
     /\ a.action = "document_signed"
     /\ a.user_id = session}

\* a metadata reader that makes up a value for a field that is absent
MetadataFieldOrDefault(metadata, name) ==
  IF name \in DOMAIN metadata THEN metadata[name] ELSE <<65, 65, 65, 65>>

\* metadata?.public_key and metadata?.signature: undefined is falsy, as the
\* empty string is
MetadataField(metadata, name) ==
  IF name \in DOMAIN metadata THEN metadata[name] ELSE << >>

\* a handleVerify that always looks the content up
NeedsLookupAlways(signatureData, pubKey) == TRUE

\* "if (!signatureData || !publicKey)"
NeedsLookup(signatureData, pubKey) ==
  signatureData = << >> \/ pubKey = << >>

\* an ending of handleVerify that reports a failed verification as content
\* that was not signed
VerifyOutcomeCollapsed(data, signatureData, pubKey) ==
  LET isValid == verifySignature(data, signatureData, pubKey) IN
    IF ~isValid.ok THEN Result(FALSE, MsgError)
    ELSE IF isValid.value THEN Result(TRUE, MsgVerified)
    ELSE Result(FALSE, MsgNotSigned)

\* from "const isValid = await verifySignature(...)" to the catch block
VerifyOutcome(data, signatureData, pubKey) ==
  LET isValid == verifySignature(data, signatureData, pubKey) IN
    IF ~isValid.ok THEN Result(FALSE, MsgError)
    ELSE IF isValid.value THEN Result(TRUE, MsgVerified)
    ELSE Result(FALSE, MsgInvalid)

\* what a handleVerify call did: the content it read, the signature and
\* public key it held at "Use manual inputs if provided", the tables it
\* queried and whether a query failed, the document it took, whether it
\* called verifySignature and with what, the result it set
VerifyEvent(data, sig, key, queried, failed, doc, called, uSig, uKey, res) ==
  [op |-> "handleVerify", outcome |-> "done", data |-> data,
   signature |-> sig, publicKey |-> key, queried |-> queried,
   failed |-> failed, doc |-> doc, called |-> called,
   usedSignature |-> uSig, usedPublicKey |-> uKey, result |-> res]

VerifyRejected(reason) == [op |-> "handleVerify", outcome |-> "rejected",
                           reason |-> reason]

\* the content read: file.text() or the text
DataToVerify ==
  IF verifyMode = "file" /\ file # Null THEN FileText(file.bytes)
  ELSE textContent

\* handleVerify found the documents query failing
VerifyDocError(data) ==
  /\ verificationResult' = Result(FALSE, MsgError)
  /\ lastEvent' = VerifyEvent(data, manualSignature, manualPublicKey,
                              {"documents"}, {"documents"}, 0, FALSE, << >>,
                              << >>, Result(FALSE, MsgError))
  /\ UNCHANGED <<manualSignature, manualPublicKey, populated>>

\* handleVerify returns early with a result
VerifyEarly(data, queried, failed, doc, message) ==
  /\ verificationResult' = Result(FALSE, message)
  /\ lastEvent' = VerifyEvent(data, manualSignature, manualPublicKey,
                              queried, failed, doc, FALSE, << >>, << >>,
                              Result(FALSE, message))
  /\ UNCHANGED <<manualSignature, manualPublicKey, populated>>

\* a handleVerify that records the verification in audit_logs
handleVerifyLogged(docError, auditError) ==
  /\ page = "verify" /\ ready
  /\ audit_logs' = audit_logs \cup
       {[user_id |-> session, action |-> "signature_verified",
         resource_type |-> "document", resource_id |-> 0, metadata |-> Null]}
  /\ VerifyEarly(DataToVerify, {"documents"}, {}, 0, MsgNotSigned)
  /\ UNCHANGED <<storage, documents, signatures, browserVars, signVars,
                 verifyMode, file, textContent, now, nextKey, reported, probe>>

\* handleVerify.  docError, auditError: the query
\* fails.  The rows come in no stated order, documents[0] and
\* signatures[0] are any of them.
handleVerify(docError, auditError) ==
  /\ page = "verify" /\ ready
  /\ IF verifyMode = "file" /\ file = Null
       THEN /\ lastEvent' = VerifyRejected("File required")
            /\ UNCHANGED <<manualSignature, manualPublicKey,
                           verificationResult, populated>>
     ELSE IF verifyMode = "text" /\ trim(textContent) = << >>
       THEN /\ lastEvent' = VerifyRejected("Text required")
            /\ UNCHANGED <<manualSignature, manualPublicKey,
                           verificationResult, populated>>
     ELSE LET data == DataToVerify IN
       IF ~NeedsLookup(manualSignature, manualPublicKey)
         THEN LET result == VerifyOutcome(data, manualSignature,
                                          manualPublicKey) IN
              /\ verificationResult' = result
              /\ lastEvent' = VerifyEvent(data, manualSignature,
                                manualPublicKey, {}, {}, 0, TRUE,
                                manualSignature, manualPublicKey, result)
              /\ UNCHANGED <<manualSignature, manualPublicKey, populated>>
       ELSE IF docError THEN VerifyDocError(data)
       ELSE LET docs == SelectDocuments(generateHash(data)) IN
         IF docs = {}
           THEN VerifyEarly(data, {"documents"}, {}, 0, MsgNotSigned)
         ELSE \E doc \in docs :
           LET sigs == SelectSignatures(doc) IN
           IF sigs = {}
             THEN VerifyEarly(data, {"documents"}, {}, doc.id,
                              MsgNoSignature)
           ELSE \E signature \in sigs :
             \E auditRows \in (IF auditError THEN {{}}
                               ELSE {SelectAuditLogs(doc)}) :
               \E metadata \in (IF auditRows = {} THEN {Null}
                                ELSE {a.metadata : a \in auditRows}) :
                 LET dbPublicKey == MetadataField(metadata, "public_key")
                     metaSignature == MetadataField(metadata, "signature")
                     dbSignature == IF metaSignature # << >>
                                      THEN metaSignature
                                      ELSE signature.signature_data IN
                   IF dbPublicKey = << >>
                     THEN VerifyEarly(data, {"documents", "audit_logs"},
                                      IF auditError THEN {"audit_logs"}
                                      ELSE {}, doc.id, MsgKeyNotFound)
                     ELSE LET result == VerifyOutcome(data, dbSignature,
                                                      dbPublicKey) IN
                          /\ manualSignature' = dbSignature
                          /\ manualPublicKey' = dbPublicKey
                          /\ populated' = TRUE
                          /\ verificationResult' = result
                          /\ lastEvent' =
                               VerifyEvent(data, manualSignature,
                                 manualPublicKey, {"documents", "audit_logs"},
                                 {}, doc.id, TRUE, dbSignature, dbPublicKey,
                                 result)
  /\ UNCHANGED <<backendVars, browserVars, signVars, verifyMode, file,
                 textContent, now, nextKey, reported, probe>>

(***************************************************************************)
(* The application.                                                        *)
(***************************************************************************)
\* what is pasted into the signature field: nothing, a signature the
\* signing page has shown, or text that is not Base64
ManualSignatures ==
  {<< >>, <<33>>} \cup {g.signature_data : g \in signatures}

\* what is pasted into the public key field: nothing or a public key the
\* signing page has shown
ManualPublicKeys ==
  {<< >>} \cup {localStorage[u].publicKey : u \in Users}

Next ==
  \/ \E u \in Users : SignIn(u)
  \/ SignOut
  \/ \E p \in {"auth", "sign", "verify"} : Navigate(p)
  \/ SignDocumentSession
  \/ VerifySignatureSession
  \/ handleGenerateKeys
  \/ \E t \in genTasks, ok \in BOOLEAN : handleGenerateKeysDone(t, ok)
  \/ \E mode \in {"file", "text"}, f \in SignFiles, text \in SignTexts :
       handleSign(mode, f, text)
  \/ \E ok \in BOOLEAN : handleSignUpload(ok)
  \/ handleSignHash
  \/ \E ok \in BOOLEAN : handleSignInsertDocument(ok)
  \/ \E ok \in BOOLEAN : handleSignInsertSignature(ok)
  \/ \E ok \in BOOLEAN : handleSignInsertAudit(ok)
  \/ \E doc \in documents, confirmed, storageOk, dbOk \in BOOLEAN :
       handleDelete(doc, confirmed, storageOk, dbOk)
  \/ \E selectedFile \in VerifyFiles \cup {Null} : handleFileChange(selectedFile)
  \/ \E value \in VerifyTexts : handleTextChange(value)
  \/ \E v \in {"file", "text"} : setVerifyMode(v)
  \/ \E value \in ManualSignatures : setManualSignature(value)
  \/ \E value \in ManualPublicKeys : setManualPublicKey(value)
  \/ \E docError \in BOOLEAN, auditError \in BOOLEAN :
       handleVerify(docError, auditError)

Spec == Init /\ [][Next]_vars

(***************************************************************************)
(* The signing page and the documents page on their own, with one more    *)
(* key pair: a stored pair, and two regenerations in flight at once.       *)
(***************************************************************************)
SignPageNext ==
  \/ \E u \in Users : SignIn(u)
  \/ SignOut
  \/ \E p \in {"auth", "sign"} : Navigate(p)
  \/ SignDocumentSession
  \/ handleGenerateKeysWithin(MaxRaceKeys)
  \/ \E t \in genTasks, ok \in BOOLEAN : handleGenerateKeysDone(t, ok)
  \/ \E mode \in {"file", "text"}, f \in SignFiles, text \in SignTexts :
       handleSign(mode, f, text)
  \/ \E ok \in BOOLEAN : handleSignUpload(ok)
  \/ handleSignHash
  \/ \E ok \in BOOLEAN : handleSignInsertDocument(ok)
  \/ \E ok \in BOOLEAN : handleSignInsertSignature(ok)
  \/ \E ok \in BOOLEAN : handleSignInsertAudit(ok)
  \/ \E doc \in documents, confirmed, storageOk, dbOk \in BOOLEAN :
       handleDelete(doc, confirmed, storageOk, dbOk)

SignPageSpec == Init /\ [][SignPageNext]_vars

(***************************************************************************)
(* The crypto utilities on their own: a probe takes a content, another    *)
(* content and two key pair numbers, generates the key pairs, signs the   *)
(* content with each private key and makes one verifySignature call.      *)
(***************************************************************************)
\* "", "a", "ax", a lone surrogate, U+FFFD, "e" with an acute accent
ProbeTexts == {<< >>, TextA, TextAx, <<55296>>, <<65533>>, <<233>>}

\* "!" and "A" are not Base64, "AQ==" and "" are
BadSignatures == {<<33>>, <<65>>, <<65, 81, 61, 61>>, << >>}

\* "!" is not Base64, "AAAA" and "" are Base64 of no key
BadKeys == {<<33>>, <<65, 65, 65, 65>>, << >>}

NoCall == [kind |-> "none", data |-> << >>, signature |-> << >>,
           publicKey |-> << >>]

ProbeKinds == {"roundtrip", "tampered", "wrongkey", "second",
               "secondwrongkey", "malformed"}

CryptoInit ==
  /\ AppInit
  /\ \E data \in ProbeTexts, other \in ProbeTexts, k \in KeyIds, k2 \in KeyIds :
       probe = [stage |-> "input", data |-> data, other |-> other, k |-> k,
                k2 |-> k2, keys |-> NoKeys, keys2 |-> NoKeys,
                signature |-> Ok(<< >>), signature2 |-> Ok(<< >>),
                call |-> NoCall, result |-> Ok(FALSE), outcome |-> Null,
                signHash |-> << >>, verifyHash |-> << >>,
                pageHash |-> << >>, otherHash |-> << >>,
                document |-> Null, signatureRow |-> Null]

ProbeGenerateKeyPair ==
  /\ probe.stage = "input"
  /\ probe' = [probe EXCEPT !.stage = "generated",
                            !.keys = generateKeyPair(probe.k),
                            !.keys2 = generateKeyPair(probe.k2)]
  /\ UNCHANGED <<backendVars, browserVars, signVars, verifyVars, now, nextKey,
                 lastEvent, reported>>

ProbeSignData ==
  /\ probe.stage = "generated"
  /\ probe' = [probe EXCEPT
                 !.stage = "signed",
                 !.signature = signData(probe.data, probe.keys.privateKey),
                 !.signature2 = signData(probe.data, probe.keys2.privateKey)]
  /\ UNCHANGED <<backendVars, browserVars, signVars, verifyVars, now, nextKey,
                 lastEvent, reported>>

\* the arguments of the verifySignature call of each kind
ProbeCall(kind, badSignature, badKey) ==
  [kind |-> kind,
   data |-> IF kind = "tampered" THEN probe.other ELSE probe.data,
   signature |-> IF kind = "malformed" THEN badSignature
                 ELSE IF kind \in {"second", "secondwrongkey"}
                   THEN probe.signature2.value
                 ELSE probe.signature.value,
   publicKey |-> IF kind = "malformed" THEN badKey
                 ELSE IF kind \in {"wrongkey", "second"}
                   THEN probe.keys2.publicKey
                 ELSE probe.keys.publicKey]

\* verifySignature is called, and the end of handleVerify from that call on
ProbeVerifySignature(kind, badSignature, badKey) ==
  /\ probe.stage = "signed"
  /\ probe.signature.ok /\ probe.signature2.ok
  /\ kind \in ProbeKinds
  /\ kind = "malformed" =>
       badSignature # probe.signature.value \/ badKey # probe.keys.publicKey
  /\ LET call == ProbeCall(kind, badSignature, badKey) IN
       probe' = [probe EXCEPT
                   !.stage = "verified", !.call = call,
                   !.result = verifySignature(call.data, call.signature,
                                              call.publicKey),
                   !.outcome = VerifyOutcome(call.data, call.signature,
                                             call.publicKey)]
  /\ UNCHANGED <<backendVars, browserVars, signVars, verifyVars, now, nextKey,
                 lastEvent, reported>>

\* the content is hashed as the signing page does (fileHash of handleSign),
\* as the verification page does (fileHash of handleVerify), by the
\* signing page's own generateHash, and once more for the other content
ProbeGenerateHash ==
  /\ probe.stage = "input"
  /\ probe' = [probe EXCEPT
                 !.stage = "hashed",
                 !.signHash = generateHash(probe.data),
                 !.verifyHash = generateHash(probe.data),
                 !.pageHash = SignDocumentGenerateHash(probe.data),
                 !.otherHash = generateHash(probe.other)]
  /\ UNCHANGED <<backendVars, browserVars, signVars, verifyVars, now, nextKey,
                 lastEvent, reported>>

\* what handleSign of the first revision of the signing page
\* (pages/SignDocument.tsx) puts into the documents row and the
\* signatures row: fileHash, and signatureHash, the digest of the typed
\* signature text followed by fileHash and user.id
FirstRevisionRows(fileContent, signatureText, userId) ==
  LET fileHash == SignDocumentGenerateHash(fileContent)
      signatureHash ==
        SignDocumentGenerateHash(signatureText \o fileHash \o userId) IN
    [document |-> [file_hash |-> fileHash, status |-> "signed"],
     signatureRow |-> [signature_data |-> signatureText,
                       signature_hash |-> signatureHash]]

\* the first revision's handleSign signs the content with the typed
\* signature text (which is not blank)
ProbeFirstRevisionSign(u) ==
  /\ probe.stage = "input"
  /\ trim(probe.other) # << >>
  /\ LET rows == FirstRevisionRows(probe.data, probe.other, UserId(u)) IN
       probe' = [probe EXCEPT !.stage = "rows",
                              !.document = rows.document,
                              !.signatureRow = rows.signatureRow]
  /\ UNCHANGED <<backendVars, browserVars, signVars, verifyVars, now, nextKey,
                 lastEvent, reported>>

CryptoNext ==
  \/ ProbeGenerateKeyPair
  \/ ProbeSignData
  \/ ProbeGenerateHash
  \/ \E u \in Users : ProbeFirstRevisionSign(u)
  \/ \E kind \in ProbeKinds,
        badSignature \in BadSignatures \cup {probe.signature.value},
        badKey \in BadKeys \cup {probe.keys.publicKey, probe.keys.privateKey} :
       ProbeVerifySignature(kind, badSignature, badKey)

CryptoSpec == CryptoInit /\ [][CryptoNext]_vars

(***************************************************************************)
(* Properties of the crypto utilities (CryptoSpec).                        *)
(***************************************************************************)
Verified(kinds) == probe.stage = "verified" /\ probe.call.kind \in kinds

\* C1: round trip.  For every content c and every key pair generateKeyPair
\* produced, verifySignature(c, signData(c, priv), pub) returns true.
RoundTrip ==
  Verified({"roundtrip"}) => probe.result = Ok(TRUE)

RoundTripWitness ==
  /\ Verified({"roundtrip"})
  /\ probe.data = <<233>>
  /\ probe.call.signature = probe.signature.value
  /\ probe.call.publicKey = generateKeyPair(probe.k).publicKey
  /\ probe.result = Ok(TRUE)

\* C2: tamper sensitivity.  With s = signData(c, priv),
\* verifySignature(c', s, pub) returns false for every content c'
\* different from c.
TamperSensitivity ==
  (Verified({"tampered"}) /\ probe.other # probe.data)
    => probe.result = Ok(FALSE)

\* C3: wrong-key rejection.  For two key pairs generated independently
\* and any content c, a signature made with the private key of one pair
\* is accepted under the public key of that pair and rejected under the
\* public key of the other pair, both ways round.
WrongKeyRejection ==
  (probe.stage = "verified" /\ probe.k # probe.k2) =>
     /\ probe.call.kind \in {"wrongkey", "secondwrongkey"}
          => probe.result = Ok(FALSE)
     /\ probe.call.kind \in {"roundtrip", "second"}
          => probe.result = Ok(TRUE)

WrongKeyRejectionWitness ==
  /\ Verified({"secondwrongkey"})
  /\ probe.k # probe.k2
  /\ probe.call.signature = probe.signature2.value
  /\ probe.call.publicKey = probe.keys.publicKey
  /\ probe.result = Ok(FALSE)

\* what is no signature or public key at all: text that is not Base64,
\* Base64 of bytes that are no key
Malformed ==
  \/ probe.call.signature \in {<<33>>, <<65>>}
  \/ probe.call.publicKey \in BadKeys \cup {probe.keys.privateKey}

\* C4: malformed-input safety.  verifySignature called with a signature
\* or a public key that is not valid Base64 or not valid key material
\* returns false and does not throw, and handleVerify ends with a
\* verification result set, the one of a failed verification.
MalformedInputSafety ==
  (Verified({"malformed"}) /\ Malformed) =>
     /\ probe.result = Ok(FALSE)
     /\ probe.outcome = Result(FALSE, MsgInvalid)

MalformedInputSafetyWitness ==
  /\ Verified({"malformed"})
  /\ probe.call.signature = <<33>>
  /\ probe.call.publicKey = <<65, 65, 65, 65>>
  /\ probe.result = Ok(FALSE)
  /\ probe.outcome.verified = FALSE


(***************************************************************************)
(* Properties of the verification page (Spec).                             *)
(***************************************************************************)
\* handleVerify has just returned after setting a result
VerifyDone == lastEvent.op = "handleVerify" /\ lastEvent.outcome = "done"

\* C5: when handleVerify holds both a signature and a public key, it
\* queries no table, and the result it sets is the one of
\* verifySignature(content, that signature, that public key).
ManualVerification ==
  (VerifyDone /\ lastEvent.signature # << >> /\ lastEvent.publicKey # << >>)
    => /\ lastEvent.queried = {}
       /\ lastEvent.called
       /\ lastEvent.usedSignature = lastEvent.signature
       /\ lastEvent.usedPublicKey = lastEvent.publicKey
       /\ lastEvent.result.verified =
            verifySignature(lastEvent.data, lastEvent.signature,
                            lastEvent.publicKey).value
       /\ lastEvent.result.message \in {MsgVerified, MsgInvalid}
       /\ verificationResult = lastEvent.result

ManualVerificationWitness ==
  /\ VerifyDone
  /\ lastEvent.signature # << >>
  /\ lastEvent.publicKey # << >>
  /\ documents # {}
  /\ lastEvent.queried = {}
  /\ lastEvent.result = Result(TRUE, MsgVerified)

\* no document row carries the digest of the content
NeverSigned(data) ==
  ~ \E d \in documents : d.file_hash = generateHash(data)

\* C6 as stated: verifying content that was never signed reports "not
\* signed", whatever the state (no query failing).
NotSignedAlways ==
  (VerifyDone /\ lastEvent.failed = {} /\ NeverSigned(lastEvent.data))
    => lastEvent.result.message = MsgNotSigned

\* C6: verifying content that was never signed reports "not signed" when
\* the signature field or the public key field is empty and the documents
\* query answers; verifySignature is not called.
NotSignedByLookup ==
  (/\ VerifyDone
   /\ NeedsLookup(lastEvent.signature, lastEvent.publicKey)
   /\ lastEvent.failed = {}
   /\ NeverSigned(lastEvent.data))
    => /\ lastEvent.result = Result(FALSE, MsgNotSigned)
       /\ lastEvent.queried = {"documents"}
       /\ ~lastEvent.called
       /\ verificationResult = lastEvent.result

NotSignedByLookupWitness ==
  /\ VerifyDone
  /\ NeedsLookup(lastEvent.signature, lastEvent.publicKey)
  /\ lastEvent.data = TextAx
  /\ NeverSigned(lastEvent.data)
  /\ signatures # {}
  /\ lastEvent.result.message = MsgNotSigned

\* the document has a signature row
HasSignature(id) == \E g \in signatures : g.document_id = id

\* an audit row of the document carries a public key
KeyRecoverable(id) ==
  \E a \in audit_logs :
    /\ a.resource_id = id
    /\ a.action = "document_signed"
    /\ "public_key" \in DOMAIN a.metadata
    /\ a.metadata.public_key # << >>

\* the signed records of the content: the documents with its digest and a
\* signature row
SignedRecords(data) ==
  {d \in documents : d.file_hash = generateHash(data) /\ HasSignature(d.id)}

\* C7 as stated: verifying content with a signed record and no public
\* key recoverable reports "key not found" and does not call
\* verifySignature (no query failing).
KeyNotFoundAlways ==
  (/\ VerifyDone
   /\ lastEvent.failed = {}
   /\ SignedRecords(lastEvent.data) # {}
   /\ \A d \in SignedRecords(lastEvent.data) : ~KeyRecoverable(d.id))
    => /\ lastEvent.result.message = MsgKeyNotFound
       /\ ~lastEvent.called

\* C7: when the signature field or the public key field is empty, the
\* documents query answers and the document handleVerify takes has a
\* signature row and no audit row with a public key, handleVerify reports
\* "key not found", a message that is neither the one of "signature
\* invalid" nor the one of "not signed", and does not call
\* verifySignature.
KeyNotFoundByLookup ==
  (/\ VerifyDone
   /\ NeedsLookup(lastEvent.signature, lastEvent.publicKey)
   /\ lastEvent.doc # 0
   /\ HasSignature(lastEvent.doc)
   /\ ~KeyRecoverable(lastEvent.doc))
    => /\ lastEvent.result = Result(FALSE, MsgKeyNotFound)
       /\ MsgKeyNotFound \notin {MsgInvalid, MsgNotSigned}
       /\ ~lastEvent.called
       /\ verificationResult = lastEvent.result

KeyNotFoundByLookupWitness ==
  /\ VerifyDone
  /\ lastEvent.failed = {}
  /\ lastEvent.doc # 0
  /\ HasSignature(lastEvent.doc)
  /\ ~KeyRecoverable(lastEvent.doc)
  /\ ~lastEvent.called
  /\ lastEvent.result.message = MsgKeyNotFound

\* the content is a changed version of content that was signed: a signing
\* action reported success for another content, and none was stored for
\* this one
Tampered(data) ==
  /\ \E r \in reported : r.data # data
  /\ NeverSigned(data)

\* C8 as stated: verifying a tampered version of signed content reports
\* "signature invalid", never "not signed" or "key not found" (no query
\* failing).
TamperedReportsInvalid ==
  (VerifyDone /\ lastEvent.failed = {} /\ Tampered(lastEvent.data))
    => lastEvent.result.message = MsgInvalid

\* C8: verifying content whose UTF-8 bytes differ from those of the signed
\* content reports "signature invalid" when handleVerify holds the
\* signature and the public key of the signing action; when the
\* signature field or the public key field is empty and the documents
\* query answers, it reports "not signed".  The messages of verified,
\* not signed, signature invalid and key not found differ from each other.
TamperedOutcomes ==
  /\ \A r \in reported :
       (/\ VerifyDone
        /\ lastEvent.signature = r.signature
        /\ lastEvent.publicKey = r.publicKey
        /\ TextEncoderEncode(lastEvent.data) # TextEncoderEncode(r.data))
         => /\ lastEvent.result = Result(FALSE, MsgInvalid)
            /\ lastEvent.queried = {}
  /\ (/\ VerifyDone
      /\ NeedsLookup(lastEvent.signature, lastEvent.publicKey)
      /\ lastEvent.failed = {}
      /\ Tampered(lastEvent.data))
       => lastEvent.result = Result(FALSE, MsgNotSigned)
  /\ Cardinality({MsgVerified, MsgNotSigned, MsgInvalid, MsgKeyNotFound}) = 4

TamperedOutcomesWitness ==
  /\ VerifyDone
  /\ Tampered(lastEvent.data)
  /\ \E r \in reported :
       /\ lastEvent.signature = r.signature
       /\ lastEvent.publicKey = r.publicKey
  /\ lastEvent.result.message = MsgInvalid

(***************************************************************************)
(* Properties of the signing page (Spec).                                  *)
(***************************************************************************)
\* C9: after handleSign reported success for a content, a handleVerify
\* of that content by the same user with no signature supplied, whose
\* queries answer, reports "verified".
VerifiedAfterSign ==
  (/\ VerifyDone
   /\ lastEvent.signature = << >>
   /\ lastEvent.failed = {}
   /\ \E r \in reported : r.user = session /\ r.data = lastEvent.data)
    => lastEvent.result.verified

\* C10: a signing action that reports success has written exactly one
\* blob, one document row, one signature row and one audit row, in file
\* mode and in text mode.
OneOfEachWritten ==
  (lastEvent.op = "handleSign" /\ lastEvent.outcome = "success")
    => lastEvent.wrote =
         [blob |-> 1, document |-> 1, signature |-> 1, audit |-> 1]

\* the persistence steps of handleSign, in the order of the code, and the
\* field of wrote that counts the writes of each
PersistenceSteps == <<"upload", "insertDocument", "insertSignature", "insertAudit">>

WroteField(step) ==
  CASE step = "upload" -> "blob"
    [] step = "insertDocument" -> "document"
    [] step = "insertSignature" -> "signature"
    [] step = "insertAudit" -> "audit"

\* a handleSign call has returned after its i-th persistence step failed
SignFailedAt(i) ==
  /\ lastEvent.op = "handleSign"
  /\ lastEvent.outcome \in {"success", "error"}
  /\ lastEvent.failed = PersistenceSteps[i]

\* C11: when a persistence step of handleSign (upload, documents insert,
\* signatures insert, audit_logs insert) fails, the call makes none of
\* the later writes and reports an error, not success.
PersistenceFailureAborts ==
  \A i \in DOMAIN PersistenceSteps :
    SignFailedAt(i) =>
      /\ lastEvent.outcome = "error"
      /\ \A j \in DOMAIN PersistenceSteps :
           j >= i => lastEvent.wrote[WroteField(PersistenceSteps[j])] = 0

\* a stored blob of signing action t that no documents row names
OrphanBlob(t) ==
  \E b \in storage :
    b.path.t = t /\ ~\E d \in documents : d.file_path = b.path

\* a documents row of signing action t with status "signed" and no
\* signatures row
UnsignedDocument(t) ==
  \E d \in documents :
    /\ d.id = t
    /\ d.status = "signed"
    /\ ~\E g \in signatures : g.document_id = d.id

\* C12: when handleSign ends in its catch block the writes it has made
\* are still in place: a failed documents insert leaves the uploaded
\* blob without a documents row, a failed signatures insert leaves a
\* documents row with status "signed" without a signatures row.
PartialWritesRemain ==
  (lastEvent.op = "handleSign" /\ lastEvent.outcome = "error") =>
    /\ lastEvent.wrote.blob = 1 =>
         \E b \in storage : b.path.t = lastEvent.t
    /\ lastEvent.wrote.document = 1 =>
         \E d \in documents : d.id = lastEvent.t
    /\ (lastEvent.failed = "insertDocument" /\ lastEvent.signMode = "file")
         => OrphanBlob(lastEvent.t)
    /\ lastEvent.failed = "insertSignature" => UnsignedDocument(lastEvent.t)

\* a file-mode handleSign has just failed at the signatures insert: its
\* blob and its "signed" documents row are stored, no signatures row is
PartialWritesRemainWitness ==
  /\ lastEvent.op = "handleSign"
  /\ lastEvent.outcome = "error"
  /\ lastEvent.failed = "insertSignature"
  /\ lastEvent.wrote = [blob |-> 1, document |-> 1, signature |-> 0, audit |-> 0]
  /\ UnsignedDocument(lastEvent.t)
  /\ \E b \in storage : b.path.t = lastEvent.t

\* the writes made so far by the handleSign call that is running or has
\* just returned
SignWrote ==
  IF signTask # Idle THEN signTask.wrote
  ELSE IF lastEvent.op = "handleSign" /\ lastEvent.outcome \in {"success", "error"}
    THEN lastEvent.wrote
  ELSE NoWrites

\* the documents insert precedes the signatures insert, which precedes
\* the audit_logs insert
InsertOrder ==
  /\ SignWrote.signature = 1 => SignWrote.document = 1
  /\ SignWrote.audit = 1 => SignWrote.signature = 1

\* the running handleSign call has computed the digest and the signature
HashedAndSigned == signTask.fileHash # << >> /\ signTask.signature # << >>

\* C13 as claimed: within a handleSign call no persistence write, the
\* blob upload included, is made before the digest and the signature are
\* computed, and the inserts are made in the order documents, signatures,
\* audit_logs.
HashSignThenWrites ==
  /\ (signTask # Idle /\ signTask.wrote # NoWrites) => HashedAndSigned
  /\ InsertOrder

\* C13: within a handleSign call the three inserts are made after the
\* digest and the signature are computed, in the order documents,
\* signatures, audit_logs; in file mode the blob upload is made before
\* the digest and the signature are computed, in text mode there is no
\* upload.
UploadThenHashSignThenInserts ==
  /\ signTask # Idle =>
       /\ signTask.wrote.document = 1 => HashedAndSigned
       /\ (signTask.signMode = "file" /\ signTask.pc # "upload")
            => signTask.wrote.blob = 1
       /\ (signTask.signMode = "file" /\ signTask.pc = "upload")
            => signTask.wrote = NoWrites /\ ~HashedAndSigned
       /\ signTask.signMode = "text" => signTask.wrote.blob = 0
  /\ InsertOrder

\* a file-mode handleSign call has uploaded, hashed, signed and made the
\* documents insert and the signatures insert
UploadThenHashSignThenInsertsWitness ==
  /\ signTask # Idle
  /\ signTask.signMode = "file"
  /\ signTask.pc = "insertAudit"
  /\ HashedAndSigned
  /\ signTask.wrote = [blob |-> 1, document |-> 1, signature |-> 1, audit |-> 0]

\* the content (dataToSign) and the public key of signing action t: of the
\* running call, or of a call that reported success
SigningActions(t) ==
  {[data |-> r.data, publicKey |-> r.publicKey] : r \in {q \in reported : q.t = t}}
    \cup (IF signTask # Idle /\ signTask.t = t
            THEN {[data |-> signTask.data, publicKey |-> signTask.publicKey]}
            ELSE {})

\* signature is the signature of data under the private key of the pair
\* whose public key is pubKey
IsSignatureOf(signature, data, pubKey) ==
  \E k \in KeyIds :
    /\ generateKeyPair(k).publicKey = pubKey
    /\ signData(data, generateKeyPair(k).privateKey) = Ok(signature)

\* C14: the signature_data of every signatures row is the signature of
\* the content whose digest is the file_hash of its documents row, and
\* is not the signature of that digest.
SignsContentNotDigest ==
  \A g \in signatures :
    \A d \in {e \in documents : e.id = g.document_id} :
      /\ SigningActions(d.id) # {}
      /\ \A a \in SigningActions(d.id) :
           /\ d.file_hash = generateHash(a.data)
           /\ IsSignatureOf(g.signature_data, a.data, a.publicKey)
           /\ ~IsSignatureOf(g.signature_data, d.file_hash, a.publicKey)

\* a signatures row and its documents row are stored for content that
\* was signed in file mode
SignsContentNotDigestWitness ==
  \E g \in signatures :
    \E d \in documents :
      /\ d.id = g.document_id
      /\ \E r \in reported :
           /\ r.t = d.id
           /\ r.signMode = "file"
           /\ d.file_hash = generateHash(r.data)
           /\ IsSignatureOf(g.signature_data, r.data, r.publicKey)

(***************************************************************************)
(* Properties of key generation (Spec).                                    *)
(***************************************************************************)
\* C15: when handleGenerateKeys succeeds for user u, localStorage holds
\* for u exactly the pair just generated, which is not the pair it held
\* before, and the entries of the other users are as before; when it
\* fails, the entry of u is as before.
KeyStoreFrame ==
  [][lastEvent'.op = "handleGenerateKeys" =>
       /\ \A v \in Users \ {lastEvent'.user} :
            localStorage'[v] = localStorage[v]
       /\ lastEvent'.outcome = "success" =>
            /\ localStorage'[lastEvent'.user] = generateKeyPair(lastEvent'.k)
            /\ localStorage'[lastEvent'.user] # localStorage[lastEvent'.user]
       /\ lastEvent'.outcome = "error" =>
            localStorage'[lastEvent'.user] = localStorage[lastEvent'.user]]_vars

\* handleGenerateKeys has just replaced a stored pair by a new one
KeyStoreFrameWitness ==
  /\ lastEvent.op = "handleGenerateKeys"
  /\ lastEvent.outcome = "success"
  /\ lastEvent.old # NoKeys
  /\ localStorage[lastEvent.user] = generateKeyPair(lastEvent.k)
  /\ localStorage[lastEvent.user] # lastEvent.old

\* C16: a stored pair is replaced by handleGenerateKeys only after the
\* user has been warned and has confirmed.
NoOverwriteWithoutWarning ==
  (/\ lastEvent.op = "handleGenerateKeys"
   /\ lastEvent.outcome = "success"
   /\ lastEvent.old # NoKeys)
    => RegenerateWarning

\* the pair under which signing action r signed is no longer the pair
\* that localStorage holds for the signer: the signer has regenerated
KeyDiscarded(r) ==
  localStorage[r.user].publicKey \notin {<< >>, r.publicKey}

\* C17: after content was signed and the signer's pair was regenerated,
\* a handleVerify of the content with the signature in the signature
\* field reports not verified when the public key field holds the key of
\* localStorage (the auto-filled one), and reports verified when it holds
\* the public key of the pair that signed.
DiscardedKeyVerification ==
  \A r \in reported :
    (/\ VerifyDone
     /\ KeyDiscarded(r)
     /\ lastEvent.data = r.data
     /\ lastEvent.signature = r.signature)
      => /\ lastEvent.publicKey = localStorage[r.user].publicKey
              => ~lastEvent.result.verified
         /\ lastEvent.publicKey = r.publicKey
              => lastEvent.result.verified

\* the signer has verified signed content with its signature and the
\* auto-filled key of the regenerated pair
DiscardedKeyVerificationWitness ==
  \E r \in reported :
    /\ VerifyDone
    /\ KeyDiscarded(r)
    /\ session = r.user
    /\ lastEvent.data = r.data
    /\ lastEvent.signature = r.signature
    /\ lastEvent.publicKey = localStorage[session].publicKey
    /\ lastEvent.called
    /\ lastEvent.result.message = MsgInvalid

(***************************************************************************)
(* Properties of the stored records (Spec).                                *)
(***************************************************************************)
\* the step is a handleDelete of the signed-in user's documents row id
\* that reports "Document deleted"
DeletedBy(id) ==
  /\ lastEvent'.op = "handleDelete"
  /\ lastEvent'.outcome = "success"
  /\ lastEvent'.doc = id
  /\ \A d \in documents : d.id = id => d.user_id = session

\* C18 as claimed: no step of the program modifies or removes a
\* documents row or a signatures row.
RecordsNeverChange ==
  [][documents \subseteq documents' /\ signatures \subseteq signatures']_vars

\* C18: no step of the program modifies a documents row or a signatures
\* row: a row that is still stored after a step is the row as it was
\* written, digest and signature included.  Rows are removed, and only
\* by handleDelete: it removes the documents row its user chose, which
\* is a row of that user, and with it that row's signatures rows.
RecordsChangeOnlyByDelete ==
  [][/\ \A d \in documents \ documents' :
          DeletedBy(d.id) /\ ~\E e \in documents' : e.id = d.id
     /\ \A g \in signatures \ signatures' :
          /\ DeletedBy(g.document_id)
          /\ ~\E h \in signatures' : h.document_id = g.document_id
     /\ \A d \in documents' \ documents :
          ~\E e \in documents : e.id = d.id
     /\ \A g \in signatures' \ signatures :
          ~\E h \in signatures : h.document_id = g.document_id]_vars

\* handleDelete has just removed the documents row and the signatures
\* row of a signing action that reported success, and another documents
\* row is still stored
RecordsChangeOnlyByDeleteWitness ==
  /\ lastEvent.op = "handleDelete"
  /\ lastEvent.outcome = "success"
  /\ \E r \in reported : r.t = lastEvent.doc
  /\ ~\E d \in documents : d.id = lastEvent.doc
  /\ ~\E g \in signatures : g.document_id = lastEvent.doc
  /\ \E g \in signatures : \E d \in documents : g.document_id = d.id

(***************************************************************************)
(* Properties of the failures of verification (Spec).                      *)
(***************************************************************************)
\* handleVerify has called verifySignature and a primitive failed in it:
\* atob, or crypto.subtle.importKey, threw
PrimitiveFailed ==
  /\ VerifyDone
  /\ lastEvent.called
  /\ ~verifySignatureTry(lastEvent.data, lastEvent.usedSignature,
                         lastEvent.usedPublicKey).ok

\* C19: when a cryptographic primitive fails during verification,
\* handleVerify reports an outcome that is not the outcome it reports
\* when the verification was evaluated and returned false.
PrimitiveFailureDistinct ==
  PrimitiveFailed => lastEvent.result # Result(FALSE, MsgInvalid)

(***************************************************************************)
(* Properties of the private key (Spec).                                   *)
(***************************************************************************)
\* sub occurs in s
Occurs(sub, s) ==
  \E i \in 1..(Len(s) - Len(sub) + 1) : SubSeq(s, i, i + Len(sub) - 1) = sub

\* the private keys: as PKCS#8 bytes and as the Base64 text the pages hold
PrivateKeys ==
  {Pkcs8Bytes(k) : k \in KeyIds} \cup {generateKeyPair(k).privateKey : k \in KeyIds}

\* the values the backend stores that come from the browser's data: the
\* bodies of the blobs, the digests, the signatures and the recorded
\* public keys (file_name, file_path, status, action and sign_mode are
\* names and literals)
StoredValues ==
  {b.body : b \in storage}
    \cup {d.file_hash : d \in documents}
    \cup {g.signature_data : g \in signatures}
    \cup {g.signature_hash : g \in signatures}
    \cup {a.metadata.public_key : a \in audit_logs}

\* C20: no blob, documents row, signatures row or audit_logs row holds a
\* private key, whole or as a part of a value.
NoPrivateKeyStored ==
  \A key \in PrivateKeys : \A v \in StoredValues : ~Occurs(key, v)

\* a signing action has written a blob and its three rows while the
\* browser holds the private key that signed
NoPrivateKeyStoredWitness ==
  /\ storage # {}
  /\ \E g \in signatures, d \in documents, a \in audit_logs :
       /\ g.document_id = d.id
       /\ a.resource_id = d.id
       /\ \E k \in KeyIds :
            /\ localStorage[d.user_id] = generateKeyPair(k)
            /\ a.metadata.public_key = generateKeyPair(k).publicKey

(***************************************************************************)
(* Properties of the identity (Spec).                                      *)
(***************************************************************************)
\* C21: every step that writes a blob, a documents row, a signatures row
\* or an audit_logs row is made with a signed-in user, and what it
\* writes carries that user's id: the owner folder of the blob path, the
\* user_id and the file_path of the documents row, the user_id of the
\* signatures row and of the audit_logs row.
WritesCarryIdentity ==
  [][/\ \A b \in storage' \ storage :
          session \in Users /\ b.path.owner = session
     /\ \A d \in documents' \ documents :
          session \in Users /\ d.user_id = session /\ d.file_path.owner = session
     /\ \A g \in signatures' \ signatures :
          session \in Users /\ g.user_id = session
     /\ \A a \in audit_logs' \ audit_logs :
          session \in Users /\ a.user_id = session]_vars

\* a file-mode and a text-mode signing action of the signed-in user have
\* written a blob, two documents rows, two signatures rows and two
\* audit_logs rows
WritesCarryIdentityWitness ==
  /\ session \in Users
  /\ \E b \in storage : b.path.owner = session
  /\ \E d, e \in documents :
       /\ d.file_path.prefix = "" /\ e.file_path.prefix = "text"
       /\ \A x \in {d, e} :
            /\ x.user_id = session
            /\ \E g \in signatures : g.document_id = x.id /\ g.user_id = session
            /\ \E a \in audit_logs : a.resource_id = x.id /\ a.user_id = session

\* C22: a user without a session who opens the verification page stays
\* on it when the page has looked at the session, and can run
\* handleVerify there.
AnonymousVerificationStays ==
  [][(page = "verify" /\ session = NoUser /\ ~ready /\ ready')
       => page' = "verify"]_vars

(***************************************************************************)
(* Properties of the verification page (Spec).                             *)
(***************************************************************************)
\* C23: a handleVerify call, whatever it reports, leaves the blobs, the
\* documents rows, the signatures rows and the audit_logs rows as they
\* were.
VerifyReadOnly ==
  [][lastEvent'.op = "handleVerify" =>
       /\ storage' = storage
       /\ documents' = documents
       /\ signatures' = signatures
       /\ audit_logs' = audit_logs]_vars

\* handleVerify has looked up stored records, called verifySignature and
\* reported "verified"
VerifyReadOnlyWitness ==
  /\ VerifyDone
  /\ lastEvent.queried = {"documents", "audit_logs"}
  /\ lastEvent.called
  /\ lastEvent.result.verified
  /\ \E d \in documents : d.id = lastEvent.doc
  /\ \E g \in signatures : g.document_id = lastEvent.doc
  /\ \E a \in audit_logs : a.resource_id = lastEvent.doc

(***************************************************************************)
(* Properties of generateHash (CryptoSpec).                                *)
(***************************************************************************)
\* C24: for every content the digest that the signing page computes is
\* the digest that the verification page computes, the generateHash of
\* utils/crypto.ts and the generateHash of pages/SignDocument.tsx return
\* the same digest, and a second call for the same content returns the
\* same digest.
HashAgreement ==
  probe.stage = "hashed" =>
    /\ probe.signHash = probe.verifyHash
    /\ probe.pageHash = probe.signHash
    /\ probe.data = probe.other => probe.otherHash = probe.signHash

\* a content with a character outside ASCII has been hashed
HashAgreementWitness ==
  /\ probe.stage = "hashed"
  /\ probe.data = <<233>>
  /\ probe.other = probe.data
  /\ probe.signHash = HexJoin(<<2, 195, 169>>)
  /\ probe.pageHash = probe.signHash

(***************************************************************************)
(* Properties of signature_hash (Spec and CryptoSpec).                     *)
(***************************************************************************)
\* C25: the signature_hash of every signatures row is the file_hash of
\* the documents row it references: of the rows the RSA signing page
\* has stored, and of the rows the first revision of the signing page
\* writes.
SignatureHashIsFileHash ==
  /\ \A g \in signatures :
       \A d \in documents :
         g.document_id = d.id => g.signature_hash = d.file_hash
  /\ probe.stage = "rows" =>
       probe.signatureRow.signature_hash = probe.document.file_hash

\* handleVerify has made its documents query and got an answer
LookedUp ==
  /\ VerifyDone
  /\ "documents" \in lastEvent.queried
  /\ "documents" \notin lastEvent.failed

\* the stored documents rows with the digest of data that user u owns,
\* and those that others own
OwnDocuments(data, u) ==
  {d \in documents : d.file_hash = generateHash(data) /\ d.user_id = u}

OthersDocuments(data, u) ==
  {d \in documents : d.file_hash = generateHash(data) /\ d.user_id # u}

\* C26: the documents row that the lookup of handleVerify resolves is a
\* row of the signed-in user, and when only other users have documents
\* rows for the content the lookup reports "not signed".
LookupOwnDocumentsOnly ==
  LookedUp =>
    /\ lastEvent.doc # 0 =>
         \E d \in OwnDocuments(lastEvent.data, session) : d.id = lastEvent.doc
    /\ OwnDocuments(lastEvent.data, session) = {} =>
         /\ lastEvent.doc = 0
         /\ lastEvent.result = Result(FALSE, MsgNotSigned)

\* a user has verified by lookup content that only another user has
\* signed, and got "not signed"
LookupOwnDocumentsOnlyWitness ==
  /\ LookedUp
  /\ OwnDocuments(lastEvent.data, session) = {}
  /\ \E d \in OthersDocuments(lastEvent.data, session) :
       /\ \E g \in signatures : g.document_id = d.id
       /\ \E a \in audit_logs : a.resource_id = d.id
  /\ lastEvent.result = Result(FALSE, MsgNotSigned)

(***************************************************************************)
(* Properties of the verification page across several verifications        *)
(* (Spec).                                                                 *)
(***************************************************************************)
\* C27: the outcome of handleVerify depends only on the content, the
\* stored rows and the credentials the user typed, not on an earlier
\* verification of the page session: when the two fields hold what an
\* earlier lookup has put there, the user has typed no complete pair of
\* credentials, and content that the user has no documents row for is
\* reported "not signed" (or the error of a failed query), as it is on a
\* page where nothing was verified before.
HistoryIndependent ==
  [][(/\ populated
      /\ lastEvent'.op = "handleVerify"
      /\ lastEvent'.outcome = "done"
      /\ OwnDocuments(lastEvent'.data, session) = {})
     => lastEvent'.result \in {Result(FALSE, MsgNotSigned),
                               Result(FALSE, MsgError)}]_vars

\* what the displayed result is a result of: the tab, the content and
\* the two credential fields
VerifyInputs ==
  <<verifyMode, file, textContent, manualSignature, manualPublicKey>>

\* C28: a displayed verification result was computed from the current
\* tab, content, signature and public key: every change of the file, the
\* text, the tab, the signature field or the public key field that the
\* user makes clears the displayed result.
ChangeClearsResult ==
  [][(/\ page = "verify" /\ page' = "verify"
      /\ lastEvent'.op # "handleVerify"
      /\ VerifyInputs' # VerifyInputs)
     => verificationResult' = Null]_vars

(***************************************************************************)
(* Properties of key generation racing with signing (SignPageSpec).        *)
(***************************************************************************)
\* priv and pub are the two halves of one generated pair
IsPair(priv, pub) ==
  \E k \in KeyIds :
    generateKeyPair(k) = [publicKey |-> pub, privateKey |-> priv]

\* the audit rows and the signatures rows of one signing action
SignedRows ==
  {r \in [audit : audit_logs, signature : signatures] :
     /\ r.audit.action = "document_signed"
     /\ r.signature.document_id = r.audit.resource_id}

\* C29: under every interleaving of handleGenerateKeys calls with a
\* running handleSign, the public key in the audit row of a signing
\* action is the counterpart of the private key that made the signature
\* stored for the same document; and the private and the public key in
\* the page state, in every entry of the key store and in the closure of
\* a running handleSign are the two halves of one pair (or both absent).
KeysOfOnePair ==
  /\ \A r \in SignedRows :
       \E q \in reported :
         /\ q.t = r.audit.resource_id
         /\ IsSignatureOf(r.signature.signature_data, q.data,
                          r.audit.metadata.public_key)
  /\ (privateKey = << >> /\ publicKey = << >>)
       \/ IsPair(privateKey, publicKey)
  /\ \A u \in Users :
       \/ localStorage[u] = NoKeys
       \/ IsPair(localStorage[u].privateKey, localStorage[u].publicKey)
  /\ signTask # Idle => IsPair(signTask.privateKey, signTask.publicKey)

\* a handleSign that was started with the first pair has just written its
\* audit row; while it was running two regenerations were in flight at
\* once: the later one has replaced the pair in the page state and in the
\* key store, the earlier one has not settled yet
KeysOfOnePairWitness ==
  /\ lastEvent.op = "handleSign"
  /\ lastEvent.outcome = "success"
  /\ \E r \in SignedRows :
       /\ r.audit.resource_id = lastEvent.t
       /\ r.audit.metadata.public_key = generateKeyPair(1).publicKey
       /\ IsSignatureOf(r.signature.signature_data, lastEvent.data,
                        r.audit.metadata.public_key)
  /\ publicKey = generateKeyPair(3).publicKey
  /\ localStorage[lastEvent.user] = generateKeyPair(3)
  /\ \E t \in genTasks : t.k = 2

(***************************************************************************)
(* Properties of the lookup when several documents rows have one digest    *)
(* (Spec).                                                                 *)
(***************************************************************************)
\* handleVerify has resolved a signature and a public key by lookup
Resolved ==
  /\ LookedUp
  /\ lastEvent.called
  /\ lastEvent.doc # 0

\* C30: the signature and the public key that the lookup of handleVerify
\* resolves come from one signing action, also when several documents
\* rows have the digest of the content: the signature is the
\* signature_data of a signatures row of the documents row chosen, the
\* public key is the one in the audit row of that documents row, and
\* both are what the signing action of that document id has reported.
LookupOfOneSigningAction ==
  Resolved =>
    /\ \E g \in signatures :
         /\ g.document_id = lastEvent.doc
         /\ g.signature_data = lastEvent.usedSignature
    /\ \E a \in audit_logs :
         /\ a.resource_id = lastEvent.doc
         /\ a.action = "document_signed"
         /\ a.metadata.public_key = lastEvent.usedPublicKey
    /\ \E q \in reported :
         /\ q.t = lastEvent.doc
         /\ q.signature = lastEvent.usedSignature
         /\ q.publicKey = lastEvent.usedPublicKey

\* the lookup has resolved one of two documents rows of the same content
\* that were signed under different keys
LookupOfOneSigningActionWitness ==
  /\ Resolved
  /\ lastEvent.result.verified
  /\ \E d \in OwnDocuments(lastEvent.data, session) :
       \E e \in OwnDocuments(lastEvent.data, session) :
         /\ d.id = lastEvent.doc
         /\ e.id # d.id
         /\ \E g \in signatures : g.document_id = e.id
         /\ \E a \in audit_logs :
              /\ a.resource_id = e.id
              /\ a.metadata # Null
              /\ a.metadata.public_key # lastEvent.usedPublicKey

=============================================================================
